---------------------------- MODULE Spec2Model ----------------------------
(***************************************************************************)
(* A model of the ciggurat ECS world (src/src/world.c, src/ciggurat.h).    *)
(*                                                                         *)
(* Strings are sequences of one-character strings, so that tokenize and    *)
(* count_char work on characters as the C code does.  A pointer is a       *)
(* record [r, o]: the allocation it points into (0: none) and the byte     *)
(* offset from its base.  Memory holds the bytes that are not zero.        *)
(*                                                                         *)
(* The containers of mylib (Vector, HashMap, LinkedList, Bitset) are not   *)
(* part of the repository; they are modelled by the contracts world.c      *)
(* relies on at its call sites: a Vector is a sequence, a LinkedList a     *)
(* sequence with its head first, a HashMap a collection whose entries stay *)
(* where they are, a Bitset a width and a set of bit indices.              *)
(***************************************************************************)
EXTENDS Integers, Sequences, FiniteSets, TLC

\* ------------------------------------------------------------------ bounds

MaxEntities == 2
MaxRuns == 1

\* --------------------------------------------------------------- constants

CHUNK_KB_SIZE == 16
CHUNK_BYTE_SIZE == CHUNK_KB_SIZE * 1024

NULL == [r |-> 0, o |-> 0]
NoStorage == 0

PtrAdd(p, n) == [r |-> p.r, o |-> p.o + n]

\* ------------------------------------------------------------ sequences

RECURSIVE SortedSeq(_)
SortedSeq(S) ==
  IF S = {} THEN <<>>
  ELSE LET m == CHOOSE x \in S : \A y \in S : x <= y
       IN <<m>> \o SortedSeq(S \ {m})

RECURSIVE SumSeq(_)
SumSeq(s) == IF s = <<>> THEN 0 ELSE Head(s) + SumSeq(Tail(s))

\* --------------------------------------------------------------- bitset

bitset_init(length) == [len |-> length, bits |-> {}]

\* bitset_incl that folds an index at or past the width back into the width
bitset_incl_wrap(b, id, oob) == [b EXCEPT !.bits = @ \cup {id % b.len}]

\* An index at or past the width is outside what bitset_init allocated for:
\* oob says what such a write does ("stored": it lands in the slack of the
\* backing words, "dropped": it is lost).
bitset_incl(b, id, oob) ==
  IF id < b.len \/ oob = "stored"
  THEN [b EXCEPT !.bits = @ \cup {id}]
  ELSE b

bitset_has(b, id) == id \in b.bits
bitset_count(b) == Cardinality(b.bits)
bitset_intersects(a, b) == a.bits \cap b.bits # {}
bitset_is_subset(a, b) == a.bits \subseteq b.bits
bitset_eql(a, b) == a = b

\* -------------------------------------------------------------- strings

\* count_char: the number of occurrences of c in str
RECURSIVE count_char(_, _)
count_char(str, c) ==
  IF str = <<>> THEN 0
  ELSE (IF Head(str) = c THEN 1 ELSE 0) + count_char(Tail(str), c)

\* tokenize, first part: the string with every ' ' removed
RECURSIVE without_whitespace(_)
without_whitespace(str) ==
  IF str = <<>> THEN <<>>
  ELSE IF Head(str) = " " THEN without_whitespace(Tail(str))
       ELSE <<Head(str)>> \o without_whitespace(Tail(str))

\* strtok over ",": the maximal runs of characters other than ','
RECURSIVE strtok(_, _)
strtok(str, cur) ==
  IF str = <<>> THEN (IF cur = <<>> THEN <<>> ELSE <<cur>>)
  ELSE IF Head(str) = ","
       THEN (IF cur = <<>> THEN <<>> ELSE <<cur>>) \o strtok(Tail(str), <<>>)
       ELSE strtok(Tail(str), Append(cur, Head(str)))

\* tokenize: the tokens; the C result is NULL when there are none
tokenize(str) == strtok(without_whitespace(str), <<>>)

\* ----------------------------------------------------------- type registry

\* find_type / get_id: the index of the type named identifier, or -1.
\* Type ids count from 0 as in C; types[id + 1] is the descriptor.
get_id(types, identifier) ==
  IF \E i \in 1..Len(types) : types[i].identifier = identifier
  THEN (CHOOSE i \in 1..Len(types) :
          /\ types[i].identifier = identifier
          /\ \A j \in 1..(i - 1) : types[j].identifier # identifier) - 1
  ELSE -1

get_size(types, id) == types[id + 1].size
get_alignment(types, id) == types[id + 1].alignment


\* ------------------------------------------------------------------ layout

\* calculate_layout, first loop: the family alignment, the widest over the mask
RECURSIVE layout_alignment(_, _, _)
layout_alignment(types, ids, alignment) ==
  IF ids = <<>> THEN alignment
  ELSE layout_alignment(types, Tail(ids),
         IF get_alignment(types, Head(ids)) > alignment
         THEN get_alignment(types, Head(ids)) ELSE alignment)

\* layout_first without the comparison of sizes: the first type in bit order
\* stays staged
layout_first_lowest(types, ids, first) == first

\* calculate_layout, first loop: the type staged first, the first in bit order
\* among those of the largest size (a later type replaces it only when larger)
RECURSIVE layout_first(_, _, _)
layout_first(types, ids, first) ==
  IF ids = <<>> THEN first
  ELSE layout_first(types, Tail(ids),
         IF get_size(types, Head(ids)) > first.size
         THEN [id |-> Head(ids), size |-> get_size(types, Head(ids))]
         ELSE first)

\* calculate_layout, the inner for loop: scanning the remaining types in bit
\* order, every type that fits the hole replaces the choice, and the scan
\* stops at one that fits exactly
RECURSIVE layout_scan(_, _, _, _)
layout_scan(types, ids, remaining_bytes, next) ==
  IF ids = <<>> THEN next
  ELSE LET size == get_size(types, Head(ids))
       IN IF size <= remaining_bytes
          THEN IF size = remaining_bytes
               THEN [id |-> Head(ids), size |-> size]
               ELSE layout_scan(types, Tail(ids), remaining_bytes,
                                [id |-> Head(ids), size |-> size])
          ELSE layout_scan(types, Tail(ids), remaining_bytes, next)

\* calculate_layout, the while loop: place the remaining types one by one; a
\* type larger than the hole makes the previous entry absorb the hole
RECURSIVE layout_pack(_, _, _, _, _)
layout_pack(types, remaining, alignment, remaining_bytes, placed) ==
  IF remaining = {} THEN placed
  ELSE LET ids == SortedSeq(remaining)
           next == layout_scan(types, ids, remaining_bytes,
                     [id |-> Head(ids), size |-> get_size(types, Head(ids))])
           prev == IF next.size > remaining_bytes
                   THEN [placed EXCEPT ![Len(placed)].size = @ + remaining_bytes]
                   ELSE placed
       IN layout_pack(types, remaining \ {next.id}, alignment,
                      alignment - (next.size % alignment),
                      Append(prev, next))

\* layout_offsets with the running size left out: every entry at offset 0
layout_offsets_zero(placed) ==
  [i \in 1..Len(placed) |->
     [id |-> placed[i].id, size |-> placed[i].size, offset |-> 0]]

\* calculate_layout, the last loop: each entry's offset is the running size
layout_offsets(placed) ==
  [i \in 1..Len(placed) |->
     [id |-> placed[i].id, size |-> placed[i].size,
      offset |-> SumSeq([j \in 1..(i - 1) |-> placed[j].size])]]

\* calculate_layout of a mask that has at least one bit
calculate_layout(types, mask) ==
  LET ids == SortedSeq(mask.bits)
      id0 == Head(ids)
      alignment == layout_alignment(types, ids, get_alignment(types, id0))
      first == layout_first(types, ids,
                 [id |-> id0, size |-> get_size(types, id0)])
      placed == layout_pack(types, mask.bits \ {first.id}, alignment,
                  alignment - (first.size % alignment), <<first>>)
  IN [types |-> layout_offsets(placed),
      count |-> bitset_count(mask),
      family_size |-> SumSeq([j \in 1..Len(placed) |-> placed[j].size]),
      alignment |-> alignment]

\* get_offset that does not compare ids: the offset of the first entry
get_offset_first(storage, id) == storage.layout.types[1].offset

\* get_offset: the offset of type id in a storage's layout, or -1
get_offset(storage, id) ==
  LET lt == storage.layout.types
  IN IF \E i \in 1..Len(lt) : lt[i].id = id
     THEN lt[CHOOSE i \in 1..Len(lt) :
               /\ lt[i].id = id
               /\ \A j \in 1..(i - 1) : lt[j].id # id].offset
     ELSE -1

\* is_match: the storage's mask has every required type and no excluded one
is_match(mask, must_have, must_not_have) ==
  /\ ~bitset_intersects(mask, must_not_have)
  /\ bitset_is_subset(must_have, mask)


\* ------------------------------------------------------ requirement strings

EXIT_SUCCESS == "EXIT_SUCCESS"
EXIT_FAILURE == "EXIT_FAILURE"

\* generate_entity_mask: a token equal to the type's name sets the type's bit
generate_entity_mask(acc, type, token, id, oob) ==
  IF token = type
  THEN [acc |-> [acc EXCEPT !.masks[1] = bitset_incl(@, id, oob)],
        rc |-> EXIT_SUCCESS]
  ELSE [acc |-> acc, rc |-> EXIT_FAILURE]

\* generate_system_masks: "!name" sets the bit in must_not_have (masks[2]);
\* "name" sets it in must_have (masks[1]) and appends the id to the operands
generate_system_masks(acc, type, token, id, oob) ==
  IF Head(token) = "!"
  THEN IF Tail(token) = type
       THEN [acc |-> [acc EXCEPT !.masks[2] = bitset_incl(@, id, oob)],
             rc |-> EXIT_SUCCESS]
       ELSE [acc |-> acc, rc |-> EXIT_FAILURE]
  ELSE IF token = type
       THEN [acc |-> [acc EXCEPT !.masks[1] = bitset_incl(@, id, oob),
                                 !.e = Append(@, id)],
             rc |-> EXIT_SUCCESS]
       ELSE [acc |-> acc, rc |-> EXIT_FAILURE]

\* the function pointer populate_mask is given
mask_func(kind, acc, type, token, id, oob) ==
  IF kind = "system"
  THEN generate_system_masks(acc, type, token, id, oob)
  ELSE generate_entity_mask(acc, type, token, id, oob)

\* populate_token that takes a token no type accepts for done
RECURSIVE populate_token_skip(_, _, _, _, _, _)
populate_token_skip(types, acc, kind, token, j, oob) ==
  IF j >= Len(types) THEN [acc |-> acc, rc |-> EXIT_SUCCESS]
  ELSE LET r == mask_func(kind, acc, types[j + 1].identifier, token, j, oob)
       IN IF r.rc = EXIT_SUCCESS THEN r
          ELSE populate_token_skip(types, acc, kind, token, j + 1, oob)

\* populate_mask, inner loop: the first registered type (from j on) that the
\* function accepts for the token; failure when there is none
RECURSIVE populate_token(_, _, _, _, _, _)
populate_token(types, acc, kind, token, j, oob) ==
  IF j >= Len(types) THEN [acc |-> acc, rc |-> EXIT_FAILURE]
  ELSE LET r == mask_func(kind, acc, types[j + 1].identifier, token, j, oob)
       IN IF r.rc = EXIT_SUCCESS THEN r
          ELSE populate_token(types, acc, kind, token, j + 1, oob)

\* populate_mask, outer loop: every token is processed, a failure is kept
RECURSIVE populate_tokens(_, _, _, _, _, _)
populate_tokens(types, acc, kind, tokens, oob, rc) ==
  IF tokens = <<>> THEN [acc |-> acc, rc |-> rc]
  ELSE LET r == populate_token(types, acc, kind, Head(tokens), 0, oob)
       IN populate_tokens(types, r.acc, kind, Tail(tokens), oob,
                          IF r.rc = EXIT_SUCCESS THEN rc ELSE EXIT_FAILURE)

\* populate_mask: no tokens, or more tokens than registered types, fail
populate_mask(types, acc, kind, types_str, oob) ==
  LET tokens == tokenize(types_str)
  IN IF tokens = <<>> THEN [acc |-> acc, rc |-> EXIT_FAILURE]
     ELSE IF Len(tokens) > Len(types) THEN [acc |-> acc, rc |-> EXIT_FAILURE]
     ELSE populate_tokens(types, acc, kind, tokens, oob, EXIT_SUCCESS)

\* ------------------------------------------------------------------ inputs

\* The type descriptors a caller registers.
TypeMenu ==
  { [identifier |-> <<"a">>, size |-> 8192, alignment |-> 8],
    [identifier |-> <<"t">>, size |-> 0, alignment |-> 1] }

\* The systems a caller registers: "a" and "t, a", each with the operand its
\* callback increments (the callbacks of tests/: *operand += 1).
SystemMenu ==
  { [identifier |-> "s1", requirements |-> <<"a">>, func |-> 0,
     user_data |-> "X"],
    [identifier |-> "s2", requirements |-> <<"t", ",", " ", "a">>, func |-> 1,
     user_data |-> "X"] }

SystemNames == {desc.identifier : desc \in SystemMenu}

\* The type lists a caller spawns with: "a", "t, a", "t".
SpawnMenu ==
  { <<"a">>, <<"t", ",", " ", "a">>, <<"t">> }

\* Values a caller writes into a component.
ValueMenu == {65}

\* What an out-of-bounds read of a layout table may find.
GarbageOffsets == {0, 8}

\* ------------------------------------------------------------------- state

\* no run or step has been the last call
NoDispatch ==
  [op |-> "none", rc |-> EXIT_SUCCESS, systems |-> <<>>, calls |-> <<>>]

VARIABLES
  types,         \* w->types: the registered CigTypeDesc, by type id
  storages,      \* w->storages: the storages, in creation order
  systems,       \* w->systems: the systems, in the table's iteration order
  next_entity,   \* w->next_entity
  entities,      \* w->entities: struct entity_internal per directory slot
  unassigned,    \* w->unassigned: recycled entity ids
  last_spawned,  \* w->last_spawned: the allocation and the ids in it
  heap,          \* the regions allocated so far, by allocation number
  mem,           \* the bytes of the regions that are not zero
  dispatch,      \* the last run or step: the systems run, the callbacks made
  registered,    \* history: the CigSystemDesc registered, in call order
  nrun,          \* history: the number of run and step calls
  aborted        \* the process has crashed

vars == <<types, storages, systems, next_entity, entities, unassigned,
          last_spawned, heap, mem, dispatch, registered, nrun, aborted>>

Init ==
  /\ types = <<>>
  /\ storages = <<>>
  /\ systems = <<>>
  /\ next_entity = 0
  /\ entities = <<>>
  /\ unassigned = <<>>
  /\ last_spawned = [state |-> "null", ids |-> <<>>]
  /\ heap = <<>>
  /\ mem = {}
  /\ dispatch = NoDispatch
  /\ registered = <<>>
  /\ nrun = 0
  /\ aborted = FALSE

\* ------------------------------------------------------------ register_type

\* register_type_rc without find_type: every descriptor is accepted
register_type_rc_accept(w_types, desc) == EXIT_SUCCESS

\* cig_world_register_type, its return value: failure when find_type finds
\* the name among the registered types
register_type_rc(w_types, desc) ==
  IF get_id(w_types, desc.identifier) >= 0 THEN EXIT_FAILURE ELSE EXIT_SUCCESS

\* cig_world_register_type: a name already registered fails, otherwise the
\* descriptor is appended
cig_world_register_type(desc) ==
  /\ ~aborted
  /\ types' = IF register_type_rc(types, desc) = EXIT_FAILURE THEN types
              ELSE Append(types, [identifier |-> desc.identifier,
                                  size |-> desc.size,
                                  alignment |-> desc.alignment])
  /\ dispatch' = NoDispatch
  /\ UNCHANGED <<storages, systems, next_entity, entities, unassigned,
                 last_spawned, heap, mem, registered, nrun, aborted>>


\* ---------------------------------------------------------- register_system

\* A struct system * held in a storage's systems map: the address of an
\* entry of w->systems, or the address of a local variable of
\* cig_world_register_system.
TableRef(identifier) == [at |-> "table", identifier |-> identifier]
StackRef(identifier) == [at |-> "stack", identifier |-> identifier]

\* hash_map_has / hash_map_get_value on w->systems
has_system(table, identifier) ==
  \E i \in 1..Len(table) : table[i].identifier = identifier

system_index(table, identifier) ==
  CHOOSE i \in 1..Len(table) : table[i].identifier = identifier

\* system_init after the test of the name: failure for a requirement string
\* populate_mask rejects; otherwise the system, matched with nothing
system_init_masks(w_types, desc) ==
  LET capacity == (count_char(desc.requirements, ",") + 1)
                    - count_char(desc.requirements, "!")
      registered_type_count == Len(w_types)
      r == populate_mask(w_types,
             [masks |-> <<bitset_init(registered_type_count),
                          bitset_init(registered_type_count)>>,
              e |-> <<>>],
             "system", desc.requirements, "dropped")
  IN IF r.rc = EXIT_FAILURE
     THEN [rc |-> EXIT_FAILURE]
     ELSE [rc |-> EXIT_SUCCESS,
           system |-> [identifier |-> desc.identifier,
                       types |-> r.acc.e,
                       types_len |-> capacity,
                       must_have |-> r.acc.masks[1],
                       must_not_have |-> r.acc.masks[2],
                       storages |-> {},
                       func |-> desc.func]]

\* system_init without hash_map_has: a name already in the table is accepted
system_init_nodup(w_types, table, desc) == system_init_masks(w_types, desc)

\* system_init: failure for a name already in the table and for a requirement
\* string populate_mask rejects
system_init(w_types, table, desc) ==
  IF has_system(table, desc.identifier)
  THEN [rc |-> EXIT_FAILURE]
  ELSE system_init_masks(w_types, desc)

\* some entry of w->storages has a freed bitset or a value nobody wrote
storages_freed(w_storages) ==
  \E i \in 1..Len(w_storages) : w_storages[i].state # "made"

\* system_find_matches: the storages of the world that match the system (the
\* mask in a value nobody wrote has no bits and the systems here require a
\* type)
system_find_matches(w_storages, system) ==
  { i \in 1..Len(w_storages) :
      /\ w_storages[i].state # "unmade"
      /\ is_match(w_storages[i].mask, system.must_have,
                  system.must_not_have) }

\* The system registered is first copied into w->systems (hash_map_put) and
\* then matched through the local variable: the matching storages are put
\* into the local's storages map and the local's address into each storage's
\* systems map.  What the table's copy of the storages map then shows depends
\* on the map: nothing (sees_puts = FALSE), or the entries put through the
\* local, when both copies share their buckets (sees_puts = TRUE).
register_system_links(w_storages, system, sees_puts) ==
  LET matched == system_find_matches(w_storages, system)
  IN [stored |-> [system EXCEPT !.storages =
                     IF sees_puts THEN matched ELSE {}],
      storages |-> [i \in 1..Len(w_storages) |->
                      IF i \in matched
                      THEN [w_storages[i] EXCEPT !.systems =
                              @ \cup {StackRef(system.identifier)}]
                      ELSE w_storages[i]]]

\* InsertAt for a table that keeps one entry per place: an entry already at
\* pos is lost
InsertAt_overwrite(s, pos, x) ==
  SubSeq(s, 1, pos - 1) \o <<x>> \o SubSeq(s, pos + 1, Len(s))

\* hash_map_put on w->systems: the entry takes the place the name's hash
\* gives it in the table's iteration order
InsertAt(s, pos, x) == SubSeq(s, 1, pos - 1) \o <<x>> \o SubSeq(s, pos, Len(s))

\* cig_world_register_system.
\*   heap_ok   whether system_find_matches reading a storage's mask that was
\*             freed goes unnoticed; otherwise the process crashes
cig_world_register_system(desc, pos, sees_puts, heap_ok) ==
  /\ ~aborted
  /\ pos \in 1..(Len(systems) + 1)
  /\ LET init == system_init(types, systems, desc)
     IN \* the choice is taken only where the call reads a freed mask
        /\ ~(init.rc = EXIT_SUCCESS /\ storages_freed(storages)) => heap_ok
        /\ IF init.rc = EXIT_FAILURE
           THEN UNCHANGED <<systems, storages, registered, aborted>>
           ELSE IF ~heap_ok
           THEN /\ aborted' = TRUE
                /\ UNCHANGED <<systems, storages, registered>>
           ELSE LET links == register_system_links(storages, init.system,
                                                   sees_puts)
                IN /\ systems' = InsertAt(systems, pos, links.stored)
                   /\ storages' = links.storages
                   /\ registered' = Append(registered, desc)
                   /\ UNCHANGED aborted
  /\ dispatch' = NoDispatch
  /\ UNCHANGED <<types, next_entity, entities, unassigned, last_spawned,
                 heap, mem, nrun>>


\* ------------------------------------------------------------------- spawn

\* region_init with a memset that does not stop at the region's end: the
\* bytes of every region are set to zero
region_init_clobber(hp, m, alignment) ==
  [heap |-> Append(hp, [alignment |-> alignment]),
   mem |-> {},
   region |-> [ptr |-> [r |-> Len(hp) + 1, o |-> 0], count |-> 0]]

\* region_init: a fresh allocation of CHUNK_BYTE_SIZE bytes with the family's
\* alignment, every byte of it set to zero
region_init(hp, m, alignment) ==
  LET r == Len(hp) + 1
  IN [heap |-> Append(hp, [alignment |-> alignment]),
      mem |-> {c \in m : c.r # r},
      region |-> [ptr |-> [r |-> r, o |-> 0], count |-> 0]]

\* storage_find_matches: the systems of the table that match the storage
storage_find_matches(table, mask) ==
  { i \in 1..Len(table) :
      is_match(mask, table[i].must_have, table[i].must_not_have) }

\* get_storage: the storage whose key is the mask, or 0
find_storage(w_storages, mask) ==
  IF \E i \in 1..Len(w_storages) : bitset_eql(w_storages[i].mask, mask)
  THEN CHOOSE i \in 1..Len(w_storages) : bitset_eql(w_storages[i].mask, mask)
  ELSE NoStorage

\* storage_init: the storage of a mask, with its layout and nothing in it.
\* state tells what has become of the entry's memory: "made", "mask_freed"
\* (the bitset of its mask and key was freed) or "unmade".
storage_init(w_types, mask) ==
  [mask |-> mask,
   layout |-> calculate_layout(w_types, mask),
   regions |-> <<>>,
   unassigned |-> <<>>,
   systems |-> {},
   state |-> "made"]

\* The entry hash_map_get_or_put made for a mask when storage_init then
\* fails: get_storage returns without hash_map_kv_assign and without
\* hash_map_delete, so the key stays in w->storages with a value nobody
\* wrote (taken for zero bytes where it is read without a crash), and the
\* key's bitset is freed by the caller.
storage_unmade(mask) ==
  [mask |-> mask,
   layout |-> [types |-> <<>>, count |-> 0, family_size |-> 0,
               alignment |-> 0],
   regions |-> <<>>,
   unassigned |-> <<>>,
   systems |-> {},
   state |-> "unmade"]

\* get_storage: the existing storage of the mask, or a new one which is
\* linked with every matching system of the table, in both directions
get_storage(w_types, w_storages, table, mask) ==
  IF find_storage(w_storages, mask) # NoStorage
  THEN [storage |-> find_storage(w_storages, mask),
        storages |-> w_storages, systems |-> table]
  ELSE LET matched == storage_find_matches(table, mask)
           idx == Len(w_storages) + 1
           new == [storage_init(w_types, mask) EXCEPT !.systems =
                     {TableRef(table[i].identifier) : i \in matched}]
       IN [storage |-> idx,
           storages |-> Append(w_storages, new),
           systems |-> [i \in 1..Len(table) |->
                          IF i \in matched
                          THEN [table[i] EXCEPT !.storages = @ \cup {idx}]
                          ELSE table[i]]]

\* storage_request_regions, the loop over the head region: take what the head
\* region has free, prepend a new region when it is full or there is none
RECURSIVE request_loop(_, _, _, _, _, _)
request_loop(storage, request, hp, m, i, count) ==
  IF i >= count
  THEN [rc |-> EXIT_SUCCESS, storage |-> storage, request |-> request,
        heap |-> hp, mem |-> m]
  ELSE LET families_per_region ==
             CHUNK_BYTE_SIZE \div storage.layout.family_size
           fresh == \/ storage.regions = <<>>
                    \/ families_per_region - Head(storage.regions).count = 0
           init == region_init(hp, m, storage.layout.alignment)
           regions == IF fresh THEN <<init.region>> \o storage.regions
                      ELSE storage.regions
           region == Head(regions)
           offset == region.count * storage.layout.family_size
           free_count == families_per_region - region.count
           j == IF free_count < count - i THEN free_count ELSE count - i
           to_append == [ptr |-> PtrAdd(region.ptr, offset), count |-> j]
       IN request_loop(
            [storage EXCEPT !.regions = [regions EXCEPT ![1].count = @ + j]],
            Append(request, to_append),
            IF fresh THEN init.heap ELSE hp,
            IF fresh THEN init.mem ELSE m,
            i + j, count)

\* storage_request_regions.  A family of size zero gets a region with no
\* memory and the count; what is appended to the request is then read from
\* the list node and not from the region in it, so the count the request
\* holds is one of the node's pointers: node_count is 0 for a null one.
\* A storage with unassigned regions fails: vector_append's success is taken
\* for a failure.
storage_request_regions(storage, hp, m, count, node_count) ==
  IF storage.layout.family_size = 0
  THEN [rc |-> EXIT_SUCCESS,
        storage |-> [storage EXCEPT !.regions =
                       <<[ptr |-> NULL, count |-> count]>> \o @],
        request |-> <<[ptr |-> NULL, count |-> node_count]>>,
        heap |-> hp, mem |-> m]
  ELSE IF Len(storage.unassigned) > 0
       THEN [rc |-> EXIT_FAILURE, storage |-> storage, request |-> <<>>,
             heap |-> hp, mem |-> m]
       ELSE request_loop(storage, <<>>, hp, m, 0, count)

\* assign_regions, the slots of the request in order: slot j of a requested
\* region is at its pointer + j * family_size
request_slots(request, family_size) ==
  LET slots(k) == [j \in 1..request[k].count |->
                     PtrAdd(request[k].ptr, (j - 1) * family_size)]
      F[k \in 0..Len(request)] ==
        IF k = 0 THEN <<>> ELSE F[k - 1] \o slots(k)
  IN F[Len(request)]

\* assign_regions: the i-th entity of last_spawned gets the i-th slot
assign_regions(w_entities, ids, sidx, slots) ==
  [e \in 1..Len(w_entities) |->
     IF \E i \in 1..Len(slots) : ids[i] = e - 1
     THEN [storage |-> sidx,
           ptr |-> slots[CHOOSE i \in 1..Len(slots) : ids[i] = e - 1]]
     ELSE w_entities[e]]


\* struct entity_internal of a directory slot that holds no entity yet
NoEntity == [storage |-> NoStorage, ptr |-> NULL]

Reverse(s) == [i \in 1..Len(s) |-> s[Len(s) + 1 - i]]

\* cig_world_spawn.
\*   oob       what a bit index past the mask's width does (bitset_incl)
\*   node      the request count read from the list node for a family of
\*             size zero: "zero", or "huge" (a pointer taken for a count)
\*   heap_ok   whether the use of memory already freed (realloc of
\*             last_spawned, the lookup among keys whose bitset was freed)
\*             goes unnoticed; otherwise the process crashes
\*   fail      the allocation that fails: "none", "realloc" (of
\*             last_spawned), "storage_init" (vector_init in storage_init),
\*             "find_matches" (the first hash_map_put of
\*             storage_find_matches) or "request" (vector_init in
\*             storage_request_regions)
cig_world_spawn(count, types_str, oob, node, heap_ok, fail) ==
  /\ ~aborted
  /\ next_entity + count <= MaxEntities
  /\ Len(entities) + 2 * count <= 2 * MaxEntities
  /\ LET types_count == count_char(types_str, ",") + 1
         m == populate_mask(types,
                [masks |-> <<bitset_init(types_count)>>, e |-> <<>>],
                "entity", types_str, oob)
         mask == m.acc.masks[1]
         stored == populate_mask(types,
                     [masks |-> <<bitset_init(types_count)>>, e |-> <<>>],
                     "entity", types_str, "stored").acc.masks[1]
         freed_use == \/ last_spawned.state = "freed"
                      \/ (fail # "realloc" /\ m.rc = EXIT_SUCCESS
                            /\ storages_freed(storages))
         looked_up == /\ freed_use => heap_ok
                      /\ fail # "realloc"
                      /\ m.rc = EXIT_SUCCESS
         existing == find_storage(storages, mask) # NoStorage
         reached == /\ looked_up
                    /\ (existing \/ mask.bits # {})
                    /\ fail \notin {"storage_init", "find_matches"}
     IN \* each choice is taken only where the call gets to the place it is about
        /\ ~freed_use => heap_ok
        /\ (\A id \in stored.bits : id < types_count) => oob = "stored"
        /\ ~(reached /\ fail = "none"
               /\ get_storage(types, storages, systems, mask)
                    .storages[get_storage(types, storages, systems, mask)
                                .storage].layout.family_size = 0)
             => node = "zero"
        /\ fail = "realloc" => (last_spawned.state = "freed" => heap_ok)
        /\ fail = "storage_init" => (looked_up /\ ~existing)
        /\ fail = "find_matches" =>
             (looked_up /\ ~existing /\ mask.bits # {}
                /\ storage_find_matches(systems, mask) # {})
        /\ fail = "request" => reached
  /\ LET types_count == count_char(types_str, ",") + 1
         m == populate_mask(types,
                [masks |-> <<bitset_init(types_count)>>, e |-> <<>>],
                "entity", types_str, oob)
         mask == m.acc.masks[1]
         gs == get_storage(types, storages, systems, mask)
         storage == gs.storages[gs.storage]
         recycled == Reverse(unassigned)
         new_count == count - Len(recycled)
         ids == recycled \o [i \in 1..new_count |-> next_entity + i - 1]
         grown == entities \o [i \in 1..(2 * new_count) |-> NoEntity]
         rq == storage_request_regions(storage, heap, mem, count, 0)
         crash == /\ aborted' = TRUE
                  /\ UNCHANGED <<storages, systems, next_entity, entities,
                                 unassigned, last_spawned, heap, mem>>
         \* err before w->last_spawned = result: result is freed, and
         \* w->last_spawned still holds the pointer realloc was given
         err_early == /\ last_spawned' = IF last_spawned.state = "null"
                                         THEN last_spawned
                                         ELSE [state |-> "freed", ids |-> <<>>]
                      /\ UNCHANGED <<systems, next_entity, entities,
                                     unassigned, heap, mem, aborted>>
     IN IF last_spawned.state = "freed" /\ ~heap_ok
        THEN crash
        ELSE IF fail = "realloc"
        THEN UNCHANGED <<storages, systems, next_entity, entities,
                         unassigned, last_spawned, heap, mem, aborted>>
        ELSE IF m.rc = EXIT_FAILURE
        THEN err_early /\ UNCHANGED storages
        ELSE IF storages_freed(storages) /\ ~heap_ok
        THEN \* hash_map_get_or_put compares with a key whose bitset is freed
             crash
        ELSE IF fail = "storage_init"
        THEN err_early /\ storages' = Append(storages, storage_unmade(mask))
        ELSE IF find_storage(storages, mask) = NoStorage /\ mask.bits = {}
        THEN \* calculate_layout reads the first bit of a mask that has none
             crash
        ELSE IF fail = "find_matches"
        THEN \* the entry is deleted again, no link was made
             err_early /\ UNCHANGED storages
        ELSE IF fail = "request"
        THEN \* assign_regions fails: the directory is cut by new_count and
             \* next_entity rewound; result, now w->last_spawned, is freed
             \* and so is the bitset that is the storage's mask and key
             /\ storages' = [gs.storages EXCEPT ![gs.storage].state =
                               IF @ = "unmade" THEN @ ELSE "mask_freed"]
             /\ systems' = gs.systems
             /\ entities' = SubSeq(grown, 1, Len(grown) - new_count)
             /\ last_spawned' = [state |-> "freed", ids |-> <<>>]
             /\ UNCHANGED <<next_entity, unassigned, heap, mem, aborted>>
        ELSE IF storage.layout.family_size > CHUNK_BYTE_SIZE
        THEN \* no family fits a region: the loop prepends a region on every
             \* pass and ends only when an allocation fails; a failing
             \* vector or list node is the "request" fault above, a failing
             \* aligned_alloc makes region_init write through null
             crash
        ELSE IF storage.layout.family_size = 0 /\ node = "huge"
        THEN \* assign_regions walks past the end of last_spawned
             crash
        ELSE IF rq.rc = EXIT_FAILURE
        THEN /\ storages' = [gs.storages EXCEPT ![gs.storage].state =
                               IF @ = "unmade" THEN @ ELSE "mask_freed"]
             /\ systems' = gs.systems
             /\ entities' = SubSeq(grown, 1, Len(grown) - new_count)
             /\ last_spawned' = [state |-> "freed", ids |-> <<>>]
             /\ UNCHANGED <<next_entity, unassigned, heap, mem, aborted>>
        ELSE /\ storages' = [gs.storages EXCEPT ![gs.storage] = rq.storage]
             /\ systems' = gs.systems
             /\ next_entity' = next_entity + new_count
             /\ entities' = assign_regions(grown, ids, gs.storage,
                              request_slots(rq.request,
                                            storage.layout.family_size))
             /\ unassigned' = <<>>
             /\ last_spawned' = [state |-> "live", ids |-> ids]
             /\ heap' = rq.heap
             /\ mem' = rq.mem
             /\ UNCHANGED aborted
  /\ dispatch' = NoDispatch
  /\ UNCHANGED <<types, registered, nrun>>

\* ----------------------------------------------------------- get_component

\* cig_world_get_component: NULL for an entity without components, for a
\* name that is no registered type and for a type the entity's storage does
\* not hold; otherwise the entity's pointer plus the type's offset
cig_world_get_component(w_types, w_storages, w_entities, e, type_str) ==
  LET e_internal == w_entities[e + 1]
      id == get_id(w_types, type_str)
  IN IF e_internal.ptr = NULL THEN NULL
     ELSE IF id < 0 THEN NULL
     ELSE IF ~bitset_has(w_storages[e_internal.storage].mask, id) THEN NULL
     ELSE IF get_offset(w_storages[e_internal.storage], id) = -1 THEN NULL
     ELSE PtrAdd(e_internal.ptr,
                 get_offset(w_storages[e_internal.storage], id))

\* ------------------------------------------------------------------ memory

read_byte(m, p) ==
  IF \E c \in m : c.r = p.r /\ c.o = p.o
  THEN (CHOOSE c \in m : c.r = p.r /\ c.o = p.o).v
  ELSE 0

write_byte(m, p, v) ==
  {c \in m : ~(c.r = p.r /\ c.o = p.o)}
    \cup (IF v = 0 THEN {} ELSE {[r |-> p.r, o |-> p.o, v |-> v]})

\* the bytes of [p, p + size) that are not zero, by their distance from p
read_bytes(m, p, size) ==
  {[o |-> c.o - p.o, v |-> c.v] :
     c \in {d \in m : d.r = p.r /\ d.o >= p.o /\ d.o < p.o + size}}

\* *p = v for an object of size bytes and a value below 256 (little endian)
write_value(m, p, size, v) ==
  IF size = 0 THEN m
  ELSE {c \in m : ~(c.r = p.r /\ c.o >= p.o /\ c.o < p.o + size)}
         \cup (IF v = 0 THEN {} ELSE {[r |-> p.r, o |-> p.o, v |-> v]})

\* *p += 1 for an object of size bytes (little endian)
RECURSIVE increment(_, _, _)
increment(m, p, size) ==
  IF size = 0 THEN m
  ELSE IF read_byte(m, p) < 255
       THEN write_byte(m, p, read_byte(m, p) + 1)
       ELSE increment(write_byte(m, p, 0), PtrAdd(p, 1), size - 1)

\* The caller writes v through the pointer get_component returned, for an
\* entity of the array the last spawn returned (tests/basic_world.c).
write_component(e, type_str, v) ==
  /\ ~aborted
  /\ e < Len(entities)
  /\ last_spawned.state = "live"
  /\ \E i \in 1..Len(last_spawned.ids) : last_spawned.ids[i] = e
  /\ LET p == cig_world_get_component(types, storages, entities, e, type_str)
     IN /\ p # NULL
        /\ mem' = write_value(mem, p,
                    get_size(types, get_id(types, type_str)), v)
  /\ dispatch' = NoDispatch
  /\ UNCHANGED <<types, storages, systems, next_entity, entities, unassigned,
                 last_spawned, heap, registered, nrun, aborted>>

\* ---------------------------------------------------------------- migration

\* memcpy(dst, src, n): the n bytes at src land at dst.  The ranges the model
\* passes are disjoint.
memcpy(m, dst, src, n) ==
  {c \in m : ~(c.r = dst.r /\ c.o >= dst.o /\ c.o < dst.o + n)}
    \cup {[r |-> dst.r, o |-> dst.o + (c.o - src.o), v |-> c.v] :
            c \in {d \in m : d.r = src.r /\ d.o >= src.o /\ d.o < src.o + n}}

\* assign_regions, the entity that has a storage already: for every type of
\* both masks, in bit order, src is the old record at the old storage's
\* offset, dest is the old record at the new storage's offset, and the call
\* is memcpy(src, dest, size), which writes to src.
RECURSIVE migrate_copy(_, _, _, _, _, _)
migrate_copy(m, w_types, old_storage, storage, e_ptr, ids) ==
  IF ids = <<>> THEN m
  ELSE LET id == Head(ids)
           src == PtrAdd(e_ptr, get_offset(old_storage, id))
           dest == PtrAdd(e_ptr, get_offset(storage, id))
       IN migrate_copy(memcpy(m, src, dest, get_size(w_types, id)),
                       w_types, old_storage, storage, e_ptr, Tail(ids))

\* the slots handed out so far, over all regions of all storages
slots_taken(w_storages) ==
  SumSeq([i \in 1..Len(w_storages) |->
            SumSeq([k \in 1..Len(w_storages[i].regions) |->
                      w_storages[i].regions[k].count])])

\* assign_regions(w, storage, mask, 1) with last_spawned naming the entity e
\* whose directory entry has a storage: a slot of the storage is requested,
\* the types of both masks are copied, and the entry is set to the storage
\* and the slot.  No exported function calls it so; the static function is
\* applied to the storages and entities the world holds, for a storage other
\* than the entity's.
assign_regions_live(e, sidx) ==
  /\ ~aborted
  /\ e < Len(entities)
  /\ entities[e + 1].storage # NoStorage
  /\ sidx \in 1..Len(storages)
  /\ sidx # entities[e + 1].storage
  /\ storages[sidx].layout.family_size > 0
  /\ storages[sidx].layout.family_size <= CHUNK_BYTE_SIZE
  /\ slots_taken(storages) < 2 * MaxEntities
  /\ LET storage == storages[sidx]
         old_storage == storages[entities[e + 1].storage]
         rq == storage_request_regions(storage, heap, mem, 1, 0)
         intersection == SortedSeq(old_storage.mask.bits \cap storage.mask.bits)
     IN /\ rq.rc = EXIT_SUCCESS
        /\ storages' = [storages EXCEPT ![sidx] = rq.storage]
        /\ mem' = migrate_copy(rq.mem, types, old_storage, storage,
                               entities[e + 1].ptr, intersection)
        /\ entities' = [entities EXCEPT ![e + 1] =
                          [storage |-> sidx,
                           ptr |-> request_slots(rq.request,
                                     storage.layout.family_size)[1]]]
        /\ heap' = rq.heap
  /\ last_spawned' = [state |-> "live", ids |-> <<e>>]
  /\ dispatch' = NoDispatch
  /\ UNCHANGED <<types, systems, next_entity, unassigned, registered, nrun,
                 aborted>>

\* ---------------------------------------------------------------- dispatch

\* system_run, the offsets of a matched storage: operand i gets the offset
\* of the layout entry at index types[i]; an index past the layout's entries
\* reads what lies behind the table (garbage)
system_offsets(system, storage, garbage) ==
  [i \in 1..system.types_len |->
     IF i <= Len(system.types)
          /\ system.types[i] + 1 <= Len(storage.layout.types)
     THEN storage.layout.types[system.types[i] + 1].offset
     ELSE garbage]

\* system_run, the contexts of one region: one per slot below its count
region_contexts(region, family_size, offsets) ==
  [i \in 1..region.count |->
     [ptr |-> PtrAdd(region.ptr, family_size * (i - 1)),
      offsets |-> offsets]]

\* system_run, the contexts of one storage: its regions from the head on
storage_contexts(storage, offsets) ==
  LET F[k \in 0..Len(storage.regions)] ==
        IF k = 0 THEN <<>>
        ELSE F[k - 1] \o region_contexts(storage.regions[k],
                                         storage.layout.family_size, offsets)
  IN F[Len(storage.regions)]

\* system_run: the callback invocations of one system, over the storages in
\* its storages map
system_run(w_storages, system, garbage) ==
  LET order == SortedSeq(system.storages)
      F[k \in 0..Len(order)] ==
        IF k = 0 THEN <<>>
        ELSE F[k - 1] \o
             LET ctxs == storage_contexts(w_storages[order[k]],
                           system_offsets(system, w_storages[order[k]],
                                          garbage))
             IN [i \in 1..Len(ctxs) |->
                   [system |-> system.identifier, storage |-> order[k],
                    ctx |-> ctxs[i]]]
  IN F[Len(order)]

\* The values an out-of-bounds read of a layout table may give, where some
\* system of the table makes one; otherwise the choice is not taken.
garbage_read(w_storages, table) ==
  IF \E k \in 1..Len(table) : \E si \in table[k].storages :
       \E i \in 1..table[k].types_len :
         ~(/\ i <= Len(table[k].types)
           /\ table[k].types[i] + 1 <= Len(w_storages[si].layout.types))
  THEN GarbageOffsets
  ELSE {0}

\* cig_system_get_component
cig_system_get_component(ctx, idx) == PtrAdd(ctx.ptr, ctx.offsets[idx + 1])

\* cig_system_get_user_data: declared in ciggurat.h and called by
\* tests/world_user_data.c, defined nowhere.  A CigSystemCtx holds ptr and
\* offsets and struct system holds no user data: there is none to return.
cig_system_get_user_data(ctx) ==
  IF "user_data" \in DOMAIN ctx THEN ctx.user_data ELSE "NULL"

\* The callbacks of tests/: system->func names the operand, which the
\* callback takes for an object of the type it asked for and increments.
callback(w_types, system, ctx, m) ==
  increment(m, cig_system_get_component(ctx, system.func),
            get_size(w_types, system.types[system.func + 1]))

\* the callbacks of a dispatch applied to memory one after the other
RECURSIVE run_callbacks(_, _, _, _)
run_callbacks(w_types, table, calls, m) ==
  IF calls = <<>> THEN m
  ELSE run_callbacks(w_types, table, Tail(calls),
         callback(w_types, table[system_index(table, Head(calls).system)],
                  Head(calls).ctx, m))

\* cig_world_run
cig_world_run(identifier, garbage) ==
  /\ ~aborted
  /\ nrun < MaxRuns
  /\ garbage \in garbage_read(storages, systems)
  /\ nrun' = nrun + 1
  /\ IF ~has_system(systems, identifier)
     THEN /\ dispatch' = [op |-> "run", rc |-> EXIT_FAILURE,
                          systems |-> <<>>, calls |-> <<>>]
          /\ UNCHANGED mem
     ELSE LET calls == system_run(storages,
                         systems[system_index(systems, identifier)], garbage)
          IN /\ dispatch' = [op |-> "run", rc |-> EXIT_SUCCESS,
                             systems |-> <<identifier>>, calls |-> calls]
             /\ mem' = run_callbacks(types, systems, calls, mem)
  /\ UNCHANGED <<types, storages, systems, next_entity, entities, unassigned,
                 last_spawned, heap, registered, aborted>>

\* cig_world_step: system_run for every entry of w->systems, in the order
\* the table iterates in
step_calls(w_storages, table, garbage) ==
  LET F[k \in 0..Len(table)] ==
        IF k = 0 THEN <<>>
        ELSE F[k - 1] \o system_run(w_storages, table[k], garbage)
  IN F[Len(table)]

cig_world_step(garbage) ==
  /\ ~aborted
  /\ nrun < MaxRuns
  /\ garbage \in garbage_read(storages, systems)
  /\ nrun' = nrun + 1
  /\ LET calls == step_calls(storages, systems, garbage)
     IN /\ dispatch' = [op |-> "step", rc |-> EXIT_SUCCESS,
                        systems |-> [k \in 1..Len(systems) |->
                                       systems[k].identifier],
                        calls |-> calls]
        /\ mem' = run_callbacks(types, systems, calls, mem)
  /\ UNCHANGED <<types, storages, systems, next_entity, entities, unassigned,
                 last_spawned, heap, registered, aborted>>

\* ----------------------------------------------------------- layout inputs

\* Type descriptors with sizes that leave holes: after "m" a hole of a whole
\* alignment is assumed, "b" leaves 7 bytes, "w" does not fit them; "g" is
\* larger than a region.
LayoutTypeMenu ==
  { [identifier |-> <<"b">>, size |-> 1, alignment |-> 1],
    [identifier |-> <<"w">>, size |-> 16, alignment |-> 8],
    [identifier |-> <<"m">>, size |-> 12288, alignment |-> 8],
    [identifier |-> <<"g">>, size |-> 16392, alignment |-> 8] }

\* The type lists spawned with them: "b, w", "b, w, m", "m", "g".
LayoutSpawnMenu ==
  { <<"b", ",", " ", "w">>,
    <<"b", ",", " ", "w", ",", " ", "m">>,
    <<"m">>,
    <<"g">> }

\* Type descriptors for the packing of a family: two of one size ("w", "d"),
\* and two that fit the hole behind them ("b", "i"); a second descriptor
\* named "b" is the one a caller registers under a name already taken.
PackingTypeMenu ==
  { [identifier |-> <<"b">>, size |-> 1, alignment |-> 1],
    [identifier |-> <<"b">>, size |-> 2, alignment |-> 2],
    [identifier |-> <<"i">>, size |-> 4, alignment |-> 4],
    [identifier |-> <<"w">>, size |-> 16, alignment |-> 8],
    [identifier |-> <<"d">>, size |-> 16, alignment |-> 8] }

\* The type lists spawned with them: "b, i, w", "w, d", "b, i".
PackingSpawnMenu ==
  { <<"b", ",", " ", "i", ",", " ", "w">>,
    <<"w", ",", " ", "d">>,
    <<"b", ",", " ", "i">> }

\* The systems of a caller that tries the limits of register_system: "t",
\* a second descriptor of the same name with "t, !a", one that excludes a
\* type nobody registers ("t, !x"), one with no requirement at all, and one
\* that requires and excludes the same type ("a, !a").
FilterSystemMenu ==
  { [identifier |-> "s1", requirements |-> <<"t">>, func |-> 0,
     user_data |-> "X"],
    [identifier |-> "s1", requirements |-> <<"t", ",", " ", "!", "a">>,
     func |-> 0, user_data |-> "X"],
    [identifier |-> "s2", requirements |-> <<"t", ",", " ", "!", "x">>,
     func |-> 0, user_data |-> "X"],
    [identifier |-> "s3", requirements |-> <<>>, func |-> 0,
     user_data |-> "X"],
    [identifier |-> "s4", requirements |-> <<"a", ",", " ", "!", "a">>,
     func |-> 0, user_data |-> "X"] }

\* The type lists spawned with them: "t" and "".
FilterSpawnMenu == { <<"t">>, <<>> }

\* A caller whose spawns fail: one type, "a", a system on it, and type lists
\* that name it, an unregistered type, an exclusion, and more types than
\* are registered; with them, the allocations of a spawn that may fail.
FaultTypeMenu ==
  { [identifier |-> <<"a">>, size |-> 8192, alignment |-> 8] }

FaultSystemMenu ==
  { [identifier |-> "s1", requirements |-> <<"a">>, func |-> 0,
     user_data |-> "X"] }

FaultSpawnMenu ==
  { <<"a">>, <<"x">>, <<"!", "a">>, <<"a", ",", " ", "a">> }

FaultMenu == {"none", "realloc", "storage_init", "find_matches", "request"}

\* ------------------------------------------------------------ specification

Next ==
  \/ \E desc \in TypeMenu : cig_world_register_type(desc)
  \/ \E desc \in SystemMenu, pos \in 1..Cardinality(SystemMenu),
        sees_puts \in BOOLEAN :
       cig_world_register_system(desc, pos, sees_puts, TRUE)
  \/ \E count \in 1..MaxEntities, types_str \in SpawnMenu,
        oob \in {"stored", "dropped"}, node \in {"zero", "huge"},
        heap_ok \in BOOLEAN :
       cig_world_spawn(count, types_str, oob, node, heap_ok, "none")
  \/ \E identifier \in SystemNames, garbage \in GarbageOffsets :
       cig_world_run(identifier, garbage)
  \/ \E garbage \in GarbageOffsets : cig_world_step(garbage)

Spec == Init /\ [][Next]_vars

\* The world and a caller that writes through the pointers get_component
\* gives it; one system, "a", and the spawns that give an entity an "a".
CallerSystemMenu == {desc \in SystemMenu : desc.identifier = "s1"}

CallerSpawnMenu == { <<"a">>, <<"t", ",", " ", "a">> }

CallerNext ==
  \/ \E desc \in TypeMenu : cig_world_register_type(desc)
  \/ \E desc \in CallerSystemMenu, sees_puts \in BOOLEAN :
       cig_world_register_system(desc, 1, sees_puts, TRUE)
  \/ \E count \in 1..MaxEntities, types_str \in CallerSpawnMenu,
        oob \in {"stored", "dropped"}, node \in {"zero", "huge"},
        heap_ok \in BOOLEAN :
       cig_world_spawn(count, types_str, oob, node, heap_ok, "none")
  \/ \E e \in 0..(MaxEntities - 1), desc \in TypeMenu, v \in ValueMenu :
       write_component(e, desc.identifier, v)
  \/ \E desc \in CallerSystemMenu, garbage \in GarbageOffsets :
       cig_world_run(desc.identifier, garbage)
  \/ \E garbage \in GarbageOffsets : cig_world_step(garbage)

SpecCaller == Init /\ [][CallerNext]_vars

\* The world with the layout inputs: types registered and entities spawned.
LayoutNext ==
  \/ \E desc \in LayoutTypeMenu : cig_world_register_type(desc)
  \/ \E count \in 1..MaxEntities, types_str \in LayoutSpawnMenu,
        oob \in {"stored", "dropped"}, node \in {"zero", "huge"},
        heap_ok \in BOOLEAN :
       cig_world_spawn(count, types_str, oob, node, heap_ok, "none")

SpecLayout == Init /\ [][LayoutNext]_vars

\* The world with the packing inputs: types registered and entities spawned.
PackingNext ==
  \/ \E desc \in PackingTypeMenu : cig_world_register_type(desc)
  \/ \E count \in 1..MaxEntities, types_str \in PackingSpawnMenu,
        oob \in {"stored", "dropped"}, node \in {"zero", "huge"},
        heap_ok \in BOOLEAN :
       cig_world_spawn(count, types_str, oob, node, heap_ok, "none")

SpecPacking == Init /\ [][PackingNext]_vars

\* The world with the systems and type lists of FilterSystemMenu and
\* FilterSpawnMenu.
FilterNext ==
  \/ \E desc \in TypeMenu : cig_world_register_type(desc)
  \/ \E desc \in FilterSystemMenu, pos \in 1..2, sees_puts \in BOOLEAN :
       cig_world_register_system(desc, pos, sees_puts, TRUE)
  \/ \E count \in 1..MaxEntities, types_str \in FilterSpawnMenu,
        oob \in {"stored", "dropped"}, node \in {"zero", "huge"},
        heap_ok \in BOOLEAN :
       cig_world_spawn(count, types_str, oob, node, heap_ok, "none")
  \/ \E identifier \in {desc.identifier : desc \in FilterSystemMenu},
        garbage \in GarbageOffsets :
       cig_world_run(identifier, garbage)
  \/ \E garbage \in GarbageOffsets : cig_world_step(garbage)

SpecFilter == Init /\ [][FilterNext]_vars

\* The world with spawns that fail, by their type list or by an allocation.
FaultNext ==
  \/ \E desc \in FaultTypeMenu : cig_world_register_type(desc)
  \/ \E desc \in FaultSystemMenu, sees_puts \in BOOLEAN,
        heap_ok \in BOOLEAN :
       cig_world_register_system(desc, 1, sees_puts, heap_ok)
  \/ \E count \in 1..MaxEntities, types_str \in FaultSpawnMenu,
        oob \in {"stored", "dropped"}, node \in {"zero", "huge"},
        heap_ok \in BOOLEAN, fail \in FaultMenu :
       cig_world_spawn(count, types_str, oob, node, heap_ok, fail)
  \/ \E identifier \in {desc.identifier : desc \in FaultSystemMenu},
        garbage \in GarbageOffsets :
       cig_world_run(identifier, garbage)
  \/ \E garbage \in GarbageOffsets : cig_world_step(garbage)

SpecFault == Init /\ [][FaultNext]_vars

\* Two types whose offsets differ between the layouts "b" and "b, i".
MigrateTypeMenu ==
  { [identifier |-> <<"b">>, size |-> 1, alignment |-> 1],
    [identifier |-> <<"i">>, size |-> 4, alignment |-> 4] }

MigrateSpawnMenu == { <<"b">>, <<"b", ",", " ", "i">> }

\* The world with entities whose components were written and that are
\* assigned a slot again.
MigrateNext ==
  \/ \E desc \in MigrateTypeMenu : cig_world_register_type(desc)
  \/ \E count \in 1..MaxEntities, types_str \in MigrateSpawnMenu,
        oob \in {"stored", "dropped"} :
       cig_world_spawn(count, types_str, oob, "zero", TRUE, "none")
  \/ \E e \in 0..(MaxEntities - 1), desc \in MigrateTypeMenu, v \in ValueMenu :
       write_component(e, desc.identifier, v)
  \/ \E e \in 0..(MaxEntities - 1), sidx \in 1..(2 * MaxEntities) :
       assign_regions_live(e, sidx)

SpecMigrate == Init /\ [][MigrateNext]_vars

\* ------------------------------------------------------------------ claims

\* the slots of a storage that hold an entity: in every region, the slots
\* below the region's count
live_slots(storage) ==
  UNION { { PtrAdd(storage.regions[k].ptr, storage.layout.family_size * j) :
              j \in 0..(storage.regions[k].count - 1) } :
          k \in 1..Len(storage.regions) }

\* the entities (ids) that hold a slot with memory
live_entities(w_entities) ==
  { e \in 0..(Len(w_entities) - 1) : w_entities[e + 1].ptr # NULL }

\* the system of the table a callback invocation was made for
call_system(call) == systems[system_index(systems, call.system)]

\* C1: in every callback invocation of a run or step, operand i of the
\* context is at the slot's base plus the archetype's offset of the i-th type
\* the system's requirement string names, which is the address get_component
\* gives for the entity in that slot and that type.
C1_OperandAddress ==
  \A n \in 1..Len(dispatch.calls) :
    LET call == dispatch.calls[n]
        S == call_system(call)
        A == storages[call.storage]
    IN \A i \in 1..Len(S.types) :
         /\ cig_system_get_component(call.ctx, i - 1)
              = PtrAdd(call.ctx.ptr, get_offset(A, S.types[i]))
         /\ \A e \in live_entities(entities) :
              (/\ entities[e + 1].storage = call.storage
               /\ entities[e + 1].ptr = call.ctx.ptr)
              => cig_system_get_component(call.ctx, i - 1)
                   = cig_world_get_component(types, storages, entities, e,
                       types[S.types[i] + 1].identifier)

\* C2: a run of a registered system calls the callback exactly once for each
\* live slot of each storage that matches the system and never for a slot of
\* another storage, and the operand the callback increments is, for every
\* matched entity, one larger after the run than before.
C2_RunOncePerSlot ==
  [][(dispatch'.op = "run" /\ dispatch'.rc = EXIT_SUCCESS /\ nrun' # nrun) =>
       LET S == systems[system_index(systems, dispatch'.systems[1])]
           matches(si) == is_match(storages[si].mask, S.must_have,
                                   S.must_not_have)
       IN /\ \A si \in 1..Len(storages) :
               \A p \in live_slots(storages[si]) :
                 Cardinality({ n \in 1..Len(dispatch'.calls) :
                                 /\ dispatch'.calls[n].storage = si
                                 /\ dispatch'.calls[n].ctx.ptr = p })
                   = IF matches(si) THEN 1 ELSE 0
          /\ \A e \in live_entities(entities) :
               matches(entities[e + 1].storage) =>
                 LET t == S.types[S.func + 1]
                     q == cig_world_get_component(types, storages, entities,
                            e, types[t + 1].identifier)
                 IN read_bytes(mem', q, get_size(types, t))
                      = read_bytes(increment(mem, q, get_size(types, t)),
                                   q, get_size(types, t))
    ]_vars

\* C3: in every callback invocation, the user data the context gives is the
\* user_data of the descriptor the system was registered with.
C3_UserData ==
  \A n \in 1..Len(dispatch.calls) :
    \A k \in 1..Len(registered) :
      registered[k].identifier = dispatch.calls[n].system
        => cig_system_get_user_data(dispatch.calls[n].ctx)
             = registered[k].user_data

\* C4: right after a successful spawn, every byte of every component of
\* every entity the spawn returned is zero.
C4_FreshZero ==
  [][next_entity' > next_entity =>
       \A n \in 1..Len(last_spawned'.ids) :
         LET ei == entities'[last_spawned'.ids[n] + 1]
         IN ei.ptr # NULL =>
              \A k \in 1..Len(storages'[ei.storage].layout.types) :
                LET lt == storages'[ei.storage].layout.types[k]
                IN read_bytes(mem', PtrAdd(ei.ptr, lt.offset),
                              get_size(types, lt.id)) = {}
    ]_vars

\* the components of the live entities: <<e, id>> for every type id in the
\* layout of the entity's storage
live_components(w_storages, w_entities) ==
  UNION { { <<e, w_storages[w_entities[e + 1].storage].layout.types[k].id>> :
              k \in 1..Len(w_storages[w_entities[e + 1].storage].layout.types) } :
          e \in live_entities(w_entities) }

\* what get_component returns for a component <<e, id>>
component_ptr(w_types, w_storages, w_entities, c) ==
  cig_world_get_component(w_types, w_storages, w_entities, c[1],
                          w_types[c[2] + 1].identifier)

\* C5: for a live entity and a type of its archetype, get_component returns
\* the same address before and after every call (register_type,
\* register_system, spawn, run, step, a write by the caller); the component's
\* bytes are left alone by every call but a run or step and a write to this
\* component, after which they are the value written.
C5_PointerStability ==
  [][\A c \in live_components(storages, entities) :
       LET q == component_ptr(types, storages, entities, c)
           size == get_size(types, c[2])
       IN q # NULL =>
            /\ component_ptr(types', storages', entities', c) = q
            /\ nrun' = nrun =>
                 \/ read_bytes(mem', q, size) = read_bytes(mem, q, size)
                 \/ \E v \in ValueMenu :
                      /\ mem' = write_value(mem, q, size, v)
                      /\ read_bytes(mem', q, size) = {[o |-> 0, v |-> v]}
                      /\ UNCHANGED <<types, storages, entities, next_entity>>
    ]_vars

\* C5, its case: a component holds the value written to it although its
\* entity is not of the last spawn (entities were spawned after the write)
\* and systems are registered.
C5_Witness ==
  \E c \in live_components(storages, entities) :
    /\ \A n \in 1..Len(last_spawned.ids) : last_spawned.ids[n] # c[1]
    /\ systems # <<>>
    /\ read_bytes(mem, component_ptr(types, storages, entities, c),
                  get_size(types, c[2])) = {[o |-> 0, v |-> 65]}

\* C6: the byte ranges of the components of live entities lie inside their
\* slots and no two of them overlap.
C6_DisjointRanges ==
  LET comps == live_components(storages, entities)
      base(c) == component_ptr(types, storages, entities, c)
      size(c) == get_size(types, c[2])
      storage(c) == storages[entities[c[1] + 1].storage]
  IN /\ \A c \in comps :
          /\ base(c) # NULL
          /\ get_offset(storage(c), c[2]) + size(c)
               <= storage(c).layout.family_size
          /\ entities[c[1] + 1].ptr.o + storage(c).layout.family_size
               <= CHUNK_BYTE_SIZE
     /\ \A c, d \in comps :
          c # d => ~(/\ size(c) > 0
                     /\ size(d) > 0
                     /\ base(c).r = base(d).r
                     /\ base(c).o < base(d).o + size(d)
                     /\ base(d).o < base(c).o + size(c))

\* C6, its case: two entities in one region of a storage whose layout holds
\* two types of a size above zero.
C6_Witness ==
  \E si \in 1..Len(storages) :
    /\ \E k \in 1..Len(storages[si].regions) :
         storages[si].regions[k].count >= 2
    /\ Cardinality({ k \in 1..Len(storages[si].layout.types) :
                       get_size(types, storages[si].layout.types[k].id) > 0 })
         >= 2

\* C7: for every storage and every system of the table, the storage is in
\* the system's storages iff the system is in the storage's systems iff the
\* storage's mask has every type the system requires and none it excludes.
C7_MatchGraph ==
  \A si \in 1..Len(storages) : \A k \in 1..Len(systems) :
    LET in_system == si \in systems[k].storages
        in_storage == TableRef(systems[k].identifier) \in storages[si].systems
        match == is_match(storages[si].mask, systems[k].must_have,
                          systems[k].must_not_have)
    IN /\ in_system <=> in_storage
       /\ in_storage <=> match

\* C8: a registration that adds a system leaves the table's new entry linked
\* to every storage that satisfies its masks, and leaves the storages of
\* the systems registered before as they were.
C8_LateRegistration ==
  [][Len(systems') = Len(systems) + 1 =>
       \E k \in 1..Len(systems') :
         /\ ~has_system(systems, systems'[k].identifier)
         /\ systems'[k].storages
              = { si \in 1..Len(storages) :
                    is_match(storages[si].mask, systems'[k].must_have,
                             systems'[k].must_not_have) }
         /\ \A j \in 1..Len(systems) :
              systems'[system_index(systems', systems[j].identifier)].storages
                = systems[j].storages
    ]_vars

\* the names of the systems registered, in the order of the calls
registered_names == [k \in 1..Len(registered) |-> registered[k].identifier]

\* C9 as stated: a step runs the registered systems in the order in which
\* they were registered.
C9_RegistrationOrder ==
  dispatch.op = "step" => dispatch.systems = registered_names

\* C9: a step runs every registered system exactly once, in the order in
\* which the system table iterates.
C9_EverySystemOnce ==
  dispatch.op = "step" =>
    /\ Len(dispatch.systems) = Len(registered)
    /\ \A k \in 1..Len(registered) :
         Cardinality({ n \in 1..Len(dispatch.systems) :
                         dispatch.systems[n] = registered[k].identifier }) = 1
    /\ dispatch.systems = [k \in 1..Len(systems) |-> systems[k].identifier]

\* C9, its case: a step has run two systems, the one registered last first.
C9_Witness ==
  /\ dispatch.op = "step"
  /\ Len(registered) = 2
  /\ dispatch.systems = <<registered[2].identifier, registered[1].identifier>>

\* the number of slots of a storage that hold an entity
storage_count(storage) ==
  SumSeq([k \in 1..Len(storage.regions) |-> storage.regions[k].count])

\* C10: a successful spawn of N entities raises the slot count of one
\* storage, the target, by N, leaves the count of every other storage as it
\* was, and leaves the directory entry of every entity returned pointing at
\* the target.
C10_SpawnCount ==
  [][next_entity' > next_entity =>
       LET N == next_entity' - next_entity
           before(si) == IF si <= Len(storages)
                         THEN storage_count(storages[si]) ELSE 0
       IN \E target \in 1..Len(storages') :
            /\ storage_count(storages'[target]) = before(target) + N
            /\ \A si \in 1..Len(storages') \ {target} :
                 storage_count(storages'[si]) = before(si)
            /\ \A n \in 1..Len(last_spawned'.ids) :
                 entities'[last_spawned'.ids[n] + 1].storage = target
    ]_vars

\* C11: in every storage, the offset of every type of the mask is a multiple
\* of the type's alignment.
C11_AlignedOffsets ==
  \A si \in 1..Len(storages) :
    \A id \in storages[si].mask.bits :
      get_offset(storages[si], id) % get_alignment(types, id) = 0

\* size rounded up to a multiple of alignment
round_up(size, alignment) ==
  ((size + alignment - 1) \div alignment) * alignment

\* C12: in every storage, family_size is at least the sum of the sizes of
\* its types and at most the sum of those sizes each rounded up to the
\* family's alignment.
C12_FamilySizeBounds ==
  \A si \in 1..Len(storages) :
    LET ids == SortedSeq(storages[si].mask.bits)
        layout == storages[si].layout
    IN /\ SumSeq([k \in 1..Len(ids) |-> get_size(types, ids[k])])
            <= layout.family_size
       /\ layout.family_size
            <= SumSeq([k \in 1..Len(ids) |->
                         round_up(get_size(types, ids[k]), layout.alignment)])

\* C13: in every storage, the first layout entry is the type of the largest
\* size, the lowest id among those of that size, at offset 0, and the
\* family's alignment is the largest alignment of its types.
C13_LargestFirst ==
  \A si \in 1..Len(storages) :
    LET bits == storages[si].mask.bits
        first == storages[si].layout.types[1]
    IN /\ first.id \in bits
       /\ first.offset = 0
       /\ \A id \in bits :
            \/ get_size(types, id) < get_size(types, first.id)
            \/ get_size(types, id) = get_size(types, first.id)
                 /\ first.id <= id
       /\ \A id \in bits :
            get_alignment(types, id) <= storages[si].layout.alignment
       /\ \E id \in bits :
            get_alignment(types, id) = storages[si].layout.alignment

\* C13, its case: a storage of two types of one size, the one registered
\* later named first in the type list, and a storage whose first entry is
\* not its lowest id.
C13_Witness ==
  /\ \E si \in 1..Len(storages) :
       \E id \in storages[si].mask.bits :
         /\ id # storages[si].layout.types[1].id
         /\ get_size(types, id)
              = get_size(types, storages[si].layout.types[1].id)
  /\ \E si \in 1..Len(storages) :
       \E id \in storages[si].mask.bits :
         id < storages[si].layout.types[1].id

\* the names a caller asks get_component for: those of the type menu and one
\* that is never registered
ComponentNames == {desc.identifier : desc \in TypeMenu} \cup {<<"x">>}

\* C14: get_component gives null for an entity whose directory entry has no
\* storage, for a name that is no registered type, and for a type the mask
\* of the entity's storage lacks; in every other case it gives the entity's
\* pointer plus the offset of the type's entry in the storage's layout.
C14_GetComponent ==
  \A e \in 0..(Len(entities) - 1) : \A name \in ComponentNames :
    LET r == cig_world_get_component(types, storages, entities, e, name)
        ei == entities[e + 1]
        known == \E k \in 1..Len(types) : types[k].identifier = name
        id == (CHOOSE k \in 1..Len(types) : types[k].identifier = name) - 1
    IN IF \/ ei.storage = NoStorage
          \/ ~known
          \/ id \notin storages[ei.storage].mask.bits
       THEN r = NULL
       ELSE \E k \in 1..Len(storages[ei.storage].layout.types) :
              /\ storages[ei.storage].layout.types[k].id = id
              /\ r = PtrAdd(ei.ptr,
                            storages[ei.storage].layout.types[k].offset)

\* C14, its case: one entity without storage, one whose storage lacks a
\* registered type, and one with a component at an offset above zero.
C14_Witness ==
  /\ \E e \in 0..(Len(entities) - 1) : entities[e + 1].storage = NoStorage
  /\ \E e \in 0..(Len(entities) - 1) : \E k \in 1..Len(types) :
       /\ entities[e + 1].storage # NoStorage
       /\ (k - 1) \notin storages[entities[e + 1].storage].mask.bits
  /\ \E e \in 0..(Len(entities) - 1) : \E name \in ComponentNames :
       /\ cig_world_get_component(types, storages, entities, e, name) # NULL
       /\ cig_world_get_component(types, storages, entities, e, name)
            # entities[e + 1].ptr

\* C15: register_type with a name already registered fails and leaves the
\* registry as it was; a register_type that succeeds gives the new type the
\* id that was the number of registered types, with the size and alignment
\* of its descriptor, and leaves every earlier type at its id with its size
\* and alignment; no two registered types have the same name.
C15_RegisterType ==
  [][\A desc \in PackingTypeMenu :
       cig_world_register_type(desc) =>
         /\ IF \E k \in 1..Len(types) : types[k].identifier = desc.identifier
            THEN /\ register_type_rc(types, desc) = EXIT_FAILURE
                 /\ types' = types
            ELSE /\ register_type_rc(types, desc) = EXIT_SUCCESS
                 /\ Len(types') = Len(types) + 1
                 /\ types'[Len(types) + 1] = desc
                 /\ get_id(types', desc.identifier) = Len(types)
                 /\ \A k \in 1..Len(types) : types'[k] = types[k]
         /\ \A i, j \in 1..Len(types') :
              i # j => types'[i].identifier # types'[j].identifier]_vars

\* C15, its case: several types are registered, and one of them under a name
\* for which the caller holds a different descriptor too.
C15_Witness ==
  /\ Len(types) >= 3
  /\ \E k \in 2..Len(types) : \E desc \in PackingTypeMenu :
       /\ desc.identifier = types[k].identifier
       /\ desc # types[k]
       /\ register_type_rc(types, desc) = EXIT_FAILURE

\* C16: register_system with a name that is already in the system table
\* fails, and the step leaves the table (with the masks, operands and
\* callback of the system of that name) and every storage (with its set of
\* matched systems) as they were.
C16_DuplicateSystem ==
  [][\A desc \in FilterSystemMenu, pos \in 1..2, sees_puts \in BOOLEAN :
       (/\ \E k \in 1..Len(systems) : systems[k].identifier = desc.identifier
        /\ cig_world_register_system(desc, pos, sees_puts, TRUE))
       => /\ system_init(types, systems, desc).rc = EXIT_FAILURE
          /\ systems' = systems
          /\ storages' = storages
          /\ registered' = registered]_vars

\* C16, its case: a system is registered, a storage it matches exists, and
\* the caller holds another descriptor of the same name whose requirements
\* are valid and match that storage too.
C16_Witness ==
  \E desc \in FilterSystemMenu : \E k \in 1..Len(systems) :
    /\ systems[k].identifier = desc.identifier
    /\ \A n \in 1..Len(registered) : registered[n] # desc
    /\ system_init_masks(types, desc).rc = EXIT_SUCCESS
    /\ system_find_matches(storages,
                           system_init_masks(types, desc).system) # {}
    /\ system_find_matches(storages, systems[k]) # {}
    /\ system_init_masks(types, desc).system.must_not_have
         # systems[k].must_not_have

\* the type a token names: the token without a leading '!'
token_name(token) == IF Head(token) = "!" THEN Tail(token) ELSE token

\* some token of the requirement string names a type that is not registered
names_unregistered(w_types, requirements) ==
  \E n \in 1..Len(tokenize(requirements)) :
    \A k \in 1..Len(w_types) :
      w_types[k].identifier # token_name(tokenize(requirements)[n])

\* C17: register_system with a requirement string in which a token, with or
\* without a leading '!', names a type that is not registered fails, adds no
\* system to the system table and no link to the matched-system set of any
\* storage.
C17_UnknownType ==
  [][\A desc \in FilterSystemMenu, pos \in 1..2, sees_puts \in BOOLEAN :
       (/\ names_unregistered(types, desc.requirements)
        /\ cig_world_register_system(desc, pos, sees_puts, TRUE))
       => /\ \/ has_system(systems, desc.identifier)
             \/ system_init_masks(types, desc).rc = EXIT_FAILURE
          /\ systems' = systems
          /\ \A si \in 1..Len(storages) :
               storages'[si].systems = storages[si].systems]_vars

\* C17, its case: no system is registered, and the caller holds a descriptor
\* with no more tokens than there are types, which excludes a type that is
\* not registered and requires one that a storage holds.
C17_Witness ==
  /\ \E desc \in FilterSystemMenu :
       /\ ~has_system(systems, desc.identifier)
       /\ Len(tokenize(desc.requirements)) <= Len(types)
       /\ \E n \in 1..Len(tokenize(desc.requirements)) :
            /\ Head(tokenize(desc.requirements)[n]) = "!"
            /\ get_id(types, Tail(tokenize(desc.requirements)[n])) = -1
       /\ \E si \in 1..Len(storages) :
            \E n \in 1..Len(tokenize(desc.requirements)) :
              /\ get_id(types, tokenize(desc.requirements)[n]) >= 0
              /\ get_id(types, tokenize(desc.requirements)[n])
                   \in storages[si].mask.bits
  /\ systems = <<>>

C19_ZeroSizeFamily ==
  /\ \A si \in 1..Len(storages) :
       storages[si].layout.family_size = 0 =>
         /\ heap = <<>>
         /\ \A k \in 1..Len(storages[si].regions) :
              storages[si].regions[k].ptr = NULL
  /\ (dispatch.op # "none" /\ dispatch.rc = EXIT_SUCCESS) =>
       \A n \in 1..Len(dispatch.systems) : \A si \in 1..Len(storages) :
         (/\ Len(storages) = 1
          /\ storages[si].layout.family_size = 0
          /\ is_match(storages[si].mask,
                      systems[system_index(systems,
                                           dispatch.systems[n])].must_have,
                      systems[system_index(systems,
                                           dispatch.systems[n])].must_not_have))
         => Cardinality({ c \in 1..Len(dispatch.calls) :
                            /\ dispatch.calls[c].system = dispatch.systems[n]
                            /\ dispatch.calls[c].storage = si })
              = next_entity

\* C20: the empty requirement string gives the empty mask: a spawn with ""
\* succeeds and puts its entities into the storage of the mask without bits,
\* of family size 0 and without layout entries, and register_system with ""
\* succeeds with a must_have and a must_not_have mask without bits.
C20_EmptyRequirement ==
  [][/\ \A count \in 1..MaxEntities, oob \in {"stored", "dropped"},
           node \in {"zero", "huge"}, heap_ok \in BOOLEAN :
          cig_world_spawn(count, <<>>, oob, node, heap_ok, "none")
          => /\ next_entity' = next_entity + count
             /\ last_spawned'.state = "live"
             /\ \E si \in 1..Len(storages') :
                  /\ storages'[si].mask.bits = {}
                  /\ storages'[si].layout.family_size = 0
                  /\ storages'[si].layout.types = <<>>
                  /\ storage_count(storages'[si])
                       = count + (IF si <= Len(storages)
                                  THEN storage_count(storages[si]) ELSE 0)
     /\ \A desc \in FilterSystemMenu, pos \in 1..2, sees_puts \in BOOLEAN :
          (/\ desc.requirements = <<>>
           /\ ~has_system(systems, desc.identifier)
           /\ cig_world_register_system(desc, pos, sees_puts, TRUE))
          => \E k \in 1..Len(systems') :
               /\ systems'[k].identifier = desc.identifier
               /\ systems'[k].must_have.bits = {}
               /\ systems'[k].must_not_have.bits = {}]_vars

\* C21: for every entity with a record and every type of its storage, the
\* address get_component gives is a multiple of the type's alignment, in
\* every slot of a region: the region's base has the family's alignment and
\* the family size is a multiple of the alignment of every type of the mask.
C21_AlignedInEverySlot ==
  /\ \A si \in 1..Len(storages) : \A id \in storages[si].mask.bits :
       storages[si].layout.family_size % get_alignment(types, id) = 0
  /\ \A e \in live_entities(entities) :
       \A id \in storages[entities[e + 1].storage].mask.bits :
         LET p == cig_world_get_component(types, storages, entities, e,
                                          types[id + 1].identifier)
         IN /\ p # NULL
            /\ heap[p.r].alignment % get_alignment(types, id) = 0
            /\ p.o % get_alignment(types, id) = 0

\* C22: a spawn that fails in assign_regions leaves the length of the entity
\* directory and next_entity as they were before the call, and every
\* directory entry that was there before as it was.
C22_FailedSpawnRollback ==
  [][\A count \in 1..MaxEntities, types_str \in FaultSpawnMenu,
        oob \in {"stored", "dropped"}, node \in {"zero", "huge"},
        heap_ok \in BOOLEAN :
       (/\ ~aborted'
        /\ cig_world_spawn(count, types_str, oob, node, heap_ok, "request"))
       => /\ Len(entities') = Len(entities)
          /\ next_entity' = next_entity
          /\ \A e \in 1..Len(entities) : entities'[e] = entities[e]]_vars

\* C23: whatever spawn has failed, w->last_spawned is null or an allocation
\* that is live, and no storage has a mask whose bitset was freed: a later
\* spawn or cig_world_deinit does not reallocate, free or read freed memory.
C23_NoDanglingAfterFailure ==
  /\ last_spawned.state # "freed"
  /\ \A si \in 1..Len(storages) : storages[si].state # "mask_freed"

\* C24: a spawn in which the making of a new storage fails, in storage_init
\* or in storage_find_matches, leaves w->storages without an entry for the
\* mask and the storages map of every system as it was: the table and the
\* systems are as before the call.
C24_FailedStorageRollback ==
  [][\A count \in 1..MaxEntities, types_str \in FaultSpawnMenu,
        oob \in {"stored", "dropped"}, node \in {"zero", "huge"},
        heap_ok \in BOOLEAN, fail \in {"storage_init", "find_matches"} :
       (/\ ~aborted'
        /\ cig_world_spawn(count, types_str, oob, node, heap_ok, fail))
       => /\ storages' = storages
          /\ systems' = systems]_vars

\* C25: the mask of every storage a spawn makes is as wide as the number of
\* types registered at the time of the spawn, and every bit set in it is
\* below that width.
C25_MaskWidth ==
  [][\A si \in (Len(storages) + 1)..Len(storages') :
       /\ storages'[si].mask.len = Len(types)
       /\ \A id \in storages'[si].mask.bits : id < storages'[si].mask.len
    ]_vars

\* C26: in every system of the table, no type is both in must_have and in
\* must_not_have: register_system does not succeed for a requirement string
\* that names a type as required and as excluded.
C26_DisjointMasks ==
  \A k \in 1..Len(systems) :
    systems[k].must_have.bits \cap systems[k].must_not_have.bits = {}

\* C27: in every storage's layout, the entry at each place after the first
\* is chosen for the hole behind the type before it (alignment minus that
\* type's size modulo the alignment): a remaining type of exactly the hole's
\* size if there is one; otherwise a largest remaining type that fits the
\* hole; otherwise the first remaining type in bit order, and then the entry
\* before it has the hole added to its size.
C27_LargestFitter ==
  \A si \in 1..Len(storages) :
    LET lt == storages[si].layout.types
        alignment == storages[si].layout.alignment
    IN \A k \in 2..Len(lt) :
         LET rem == { lt[j].id : j \in k..Len(lt) }
             prev == get_size(types, lt[k - 1].id)
             hole == alignment - (prev % alignment)
             fit == { id \in rem : get_size(types, id) <= hole }
             exact == { id \in rem : get_size(types, id) = hole }
         IN IF exact # {} THEN lt[k].id \in exact
            ELSE IF fit # {}
            THEN /\ lt[k].id \in fit
                 /\ \A id \in fit :
                      get_size(types, id) <= get_size(types, lt[k].id)
            ELSE /\ \A id \in rem : lt[k].id <= id
                 /\ lt[k - 1].size = prev + hole

\* C28: every spawn returns (where neither a bit past the mask's width nor
\* freed memory is in play, the process does not crash in it), also for a
\* family larger than a region; and no region of a storage holds more slots
\* than CHUNK_BYTE_SIZE divided by the family size.
C28_SpawnTerminates ==
  [][/\ \A count \in 1..MaxEntities, types_str \in LayoutSpawnMenu :
          cig_world_spawn(count, types_str, "stored", "zero", TRUE, "none")
          => ~aborted'
     /\ \A si \in 1..Len(storages') :
          storages'[si].layout.family_size > 0 =>
            \A k \in 1..Len(storages'[si].regions) :
              storages'[si].regions[k].count
                <= CHUNK_BYTE_SIZE \div storages'[si].layout.family_size
    ]_vars

\* C29: a successful spawn that starts with one directory entry per minted id
\* ends with one directory entry per minted id (the directory's length is the
\* next-entity counter), and the ids it returns are directory indices and
\* pairwise distinct.
C29_DirectoryLength ==
  [][(/\ Len(entities) = next_entity
      /\ last_spawned'.state = "live"
      /\ next_entity' > next_entity)
     => /\ Len(entities') = next_entity'
        /\ \A i \in 1..Len(last_spawned'.ids) :
             /\ last_spawned'.ids[i] < Len(entities')
             /\ \A j \in 1..Len(last_spawned'.ids) :
                  last_spawned'.ids[i] = last_spawned'.ids[j] => i = j
    ]_vars

\* C30: when assign_regions handles an entity whose directory entry has a
\* storage, every type of both the old and the new mask has in the new record
\* the bytes it had in the old record, the old record is left as it was, and
\* the directory entry holds the new storage and a record of it.
C30_MigrationCopies ==
  [][\A e \in 0..(MaxEntities - 1), sidx \in 1..(2 * MaxEntities) :
       (/\ e < Len(entities)
        /\ entities[e + 1].storage # NoStorage
        /\ assign_regions_live(e, sidx))
       => LET old == entities[e + 1]
              new == entities'[e + 1]
              old_storage == storages[old.storage]
              storage == storages[sidx]
          IN /\ \A id \in old_storage.mask.bits \cap storage.mask.bits :
                  read_bytes(mem', PtrAdd(new.ptr, get_offset(storage, id)),
                             get_size(types, id))
                    = read_bytes(mem,
                                 PtrAdd(old.ptr, get_offset(old_storage, id)),
                                 get_size(types, id))
             /\ read_bytes(mem', old.ptr, old_storage.layout.family_size)
                  = read_bytes(mem, old.ptr, old_storage.layout.family_size)
             /\ new.storage = sidx
             /\ new.ptr # old.ptr
             /\ new.ptr.r = Head(storages'[sidx].regions).ptr.r
    ]_vars

=============================================================================
